---- MODULE Spec2Model ----
(***************************************************************************)
(* Model of marginaleffects/model_abstract.py: the abstract adapter        *)
(* ModelAbstract (eager validation at construction, get_vcov) and the      *)
(* statsmodels adapter ModelStatsmodels (get_vcov_raw, get_variables_names,*)
(* get_predict).                                                           *)
(*                                                                         *)
(* Python values are records with a type tag t.  A Python string is a      *)
(* sequence of tokens; the tokens "[" and "]" are the bracket characters   *)
(* and no other token contains a bracket.                                  *)
(***************************************************************************)
EXTENDS Integers, Sequences, FiniteSets, TLC

VARIABLES model, self, last, seen

vars == <<model, self, last, seen>>

(* ------------------------------ bounds --------------------------------- *)

\* largest dimension of a coefficient or covariance array
MaxCoef == 2
\* longest predictor term list of the model (model.model.exog_names)
MaxTerms == 2
\* longest requested list / mapping of variable names
MaxReq == 2
\* most rows of an input table or of a backend prediction
MaxRows == 3
\* most columns (categories) of a rank-2 backend prediction
MaxGroups == 2

(* --------------------------- Python values ----------------------------- *)

NoneV == [t |-> "NoneType"]
Unset == [t |-> "unset"]
BoolV(b) == [t |-> "bool", v |-> b]
IntV(i) == [t |-> "int", v |-> i]
StrV(s) == [t |-> "str", v |-> s]
ListV(xs) == [t |-> "list", v |-> xs]
DictV(ks) == [t |-> "dict", keys |-> ks]
MethodV == [t |-> "method"]
\* an array-like backend object (pandas Series / DataFrame, nested list)
ArrayLike(shape) == [t |-> "arraylike", shape |-> shape]
NdArray(shape) == [t |-> "ndarray", shape |-> shape]
PandasFrame(cols, h) == [t |-> "pd.DataFrame", columns |-> cols, height |-> h]
PolarsFrame(cols, h) == [t |-> "pl.DataFrame", columns |-> cols, height |-> h]

Range(s) == {s[i] : i \in DOMAIN s}

SeqsUpTo(S, n) == UNION {[1..k -> S] : k \in 0..n}

\* np.array(v): always an ndarray; an array-like keeps its shape, any other
\* object (None, a bound method) becomes a 0-dimensional object array
np_array(v) ==
  IF v.t \in {"arraylike", "ndarray"} THEN NdArray(v.shape) ELSE NdArray(<<>>)

\* len(a) of an ndarray of rank >= 1: its first dimension
len(a) == a.shape[1]

\* pl.from_pandas(df)
from_pandas(df) == PolarsFrame(df.columns, df.height)

(* ------------------------------ outcomes ------------------------------- *)

Return(v, w) ==
  [kind |-> "return", value |-> v, exc |-> "", msg |-> <<>>, warnings |-> w]
Raise(e, m, w) ==
  [kind |-> "raise", value |-> Unset, exc |-> e, msg |-> m, warnings |-> w]

MsgCoef == <<"coef must be a numpy array">>
MsgModeldata == <<"modeldata must be a Polars DataFrame">>
MsgResponse == <<"response_name must be a string">>
MsgFormula == <<"formula must be a string">>
MsgVcovArray == <<"vcov must be a numpy array">>
MsgVcovShape ==
  <<"vcov must be a square numpy array with dimensions equal to the length of self.coef">>
MsgVcovType == <<"vcov must be a boolean or a string">>
MsgNoAttr(lab) == <<"The model object has no ">> \o lab \o <<" attribute.">>

(* ------------------------- ModelStatsmodels getters -------------------- *)

get_coef(m) == np_array(m.params)

get_modeldata(m) ==
  LET df == m.frame IN
  IF df.t # "pl.DataFrame" THEN from_pandas(df) ELSE df

get_response_name(m) == m.endog_names

get_formula(m) == m.formula

(* ------------------------ ModelAbstract.__init__ ----------------------- *)

NoCalls ==
  [get_coef |-> 0, get_modeldata |-> 0, get_response_name |-> 0, get_formula |-> 0]

Blank ==
  [status |-> "new", coef |-> Unset, modeldata |-> Unset, response_name |-> Unset,
   formula |-> Unset, calls |-> NoCalls, exc |-> "", msg |-> <<>>]

\* each validate_* step runs only if no earlier step raised
validate_coef(s, m) ==
  IF s.exc # "" THEN s ELSE
  LET coef == get_coef(m)
      c == [s EXCEPT !.calls.get_coef = @ + 1]
  IN IF coef.t # "ndarray"
     THEN [c EXCEPT !.exc = "ValueError", !.msg = MsgCoef]
     ELSE [c EXCEPT !.coef = coef]

validate_modeldata(s, m) ==
  IF s.exc # "" THEN s ELSE
  LET modeldata == get_modeldata(m)
      c == [s EXCEPT !.calls.get_modeldata = @ + 1]
  IN IF modeldata.t # "pl.DataFrame"
     THEN [c EXCEPT !.exc = "ValueError", !.msg = MsgModeldata]
     ELSE [c EXCEPT !.modeldata = modeldata]

validate_response_name(s, m) ==
  IF s.exc # "" THEN s ELSE
  LET response_name == get_response_name(m)
      c == [s EXCEPT !.calls.get_response_name = @ + 1]
  IN IF response_name.t # "str"
     THEN [c EXCEPT !.exc = "ValueError", !.msg = MsgResponse]
     ELSE [c EXCEPT !.response_name = response_name]

validate_formula(s, m) ==
  IF s.exc # "" THEN s ELSE
  LET formula == get_formula(m)
      c == [s EXCEPT !.calls.get_formula = @ + 1]
  IN IF formula.t # "str"
     THEN [c EXCEPT !.exc = "ValueError", !.msg = MsgFormula]
     ELSE [c EXCEPT !.formula = formula]

\* __init__: the four validations in order; the adapter exists only if none raised
init(m) ==
  LET s == validate_formula(
             validate_response_name(
               validate_modeldata(
                 validate_coef(Blank, m), m), m), m)
  IN [s EXCEPT !.status = IF s.exc = "" THEN "constructed" ELSE "failed"]

(* ------------------------------ covariance ----------------------------- *)

\* f"cov_{vcov}"
CovLabel(name) == <<"cov_">> \o name

\* get_vcov_raw with a silent fallback: an unknown estimator name yields the
\* default covariance instead of an error
get_vcov_raw_fallback(m, vcov) ==
  IF vcov.t = "bool"
  THEN IF vcov.v = TRUE
       THEN Return(np_array(m.cov_params), <<>>)
       ELSE Return(np_array(NoneV), <<>>)
  ELSE IF vcov.t = "str"
  THEN LET lab == CovLabel(vcov.v) IN
       IF lab \in DOMAIN m.attrs
       THEN Return(np_array(m.attrs[lab]), <<>>)
       ELSE Return(np_array(m.cov_params), <<>>)
  ELSE Raise("ValueError", MsgVcovType, <<>>)

\* ModelStatsmodels.get_vcov_raw: an outcome whose value is np.array(V)
get_vcov_raw(m, vcov) ==
  IF vcov.t = "bool"
  THEN IF vcov.v = TRUE
       THEN Return(np_array(m.cov_params), <<>>)
       ELSE Return(np_array(NoneV), <<>>)
  ELSE IF vcov.t = "str"
  THEN LET lab == CovLabel(vcov.v) IN
       IF lab \in DOMAIN m.attrs
       THEN Return(np_array(m.attrs[lab]), <<>>)
       ELSE Raise("ValueError", MsgNoAttr(lab), <<>>)
  ELSE Raise("ValueError", MsgVcovType, <<>>)

\* get_vcov comparing only the number of rows with the coefficient count
get_vcov_rows_only(s, m, vcov) ==
  LET raw == get_vcov_raw(m, vcov)
      out == IF raw.kind = "raise" THEN raw
             ELSE IF raw.value.t # "ndarray"
                  THEN Raise("ValueError", MsgVcovArray, <<>>)
             ELSE IF Len(raw.value.shape) # 2 \/ raw.value.shape[1] # len(s.coef)
                  THEN Raise("ValueError", MsgVcovShape, <<>>)
             ELSE Return(raw.value, <<>>)
  IN [self |-> s, out |-> out]

\* get_vcov re-reading the coefficients from the model on every call
get_vcov_refresh(s, m, vcov) ==
  LET c == [s EXCEPT !.coef = get_coef(m), !.calls.get_coef = @ + 1]
      raw == get_vcov_raw(m, vcov)
      out == IF raw.kind = "raise" THEN raw
             ELSE IF raw.value.t # "ndarray"
                  THEN Raise("ValueError", MsgVcovArray, <<>>)
             ELSE IF raw.value.shape # <<len(c.coef), len(c.coef)>>
                  THEN Raise("ValueError", MsgVcovShape, <<>>)
             ELSE Return(raw.value, <<>>)
  IN [self |-> c, out |-> out]

\* ModelAbstract.get_vcov: the raw result, then the type and shape checks.
\* The call assigns no attribute of the adapter: self is handed back as it came.
get_vcov(s, m, vcov) ==
  LET raw == get_vcov_raw(m, vcov)
      out == IF raw.kind = "raise" THEN raw
             ELSE IF raw.value.t # "ndarray"
                  THEN Raise("ValueError", MsgVcovArray, <<>>)
             ELSE IF raw.value.shape # <<len(s.coef), len(s.coef)>>
                  THEN Raise("ValueError", MsgVcovShape, <<>>)
             ELSE Return(raw.value, <<>>)
  IN [self |-> s, out |-> out]

(* --------------------------- variable names ---------------------------- *)

\* positions of a token in a string
Positions(x, tok) == {i \in DOMAIN x : x[i] = tok}

SetMin(S) == CHOOSE i \in S : \A j \in S : i <= j
SetMax(S) == CHOOSE i \in S : \A j \in S : i >= j

\* re.sub("\[.*\]", "", x): the match is greedy, from the first "[" to the
\* last "]" after it; what follows the last "]" holds no further match
re_sub_brackets(x) ==
  LET opens == Positions(x, "[")
      closes == Positions(x, "]")
  IN IF opens = {} \/ closes = {} THEN x
     ELSE LET i == SetMin(opens)
              j == SetMax(closes)
          IN IF j > i THEN SubSeq(x, 1, i - 1) \o SubSeq(x, j + 1, Len(x)) ELSE x

\* [f(x) for x in xs if keep(x)] helpers over sequences
RECURSIVE FilterSeq(_, _)
FilterSeq(xs, S) ==
  IF xs = <<>> THEN <<>>
  ELSE (IF Head(xs) \in S THEN <<Head(xs)>> ELSE <<>>) \o FilterSeq(Tail(xs), S)

\* x in newdata.columns
InColumns(x, newdata) == x.t = "str" /\ x.v \in Range(newdata.columns)

\* pl.Series(xs).unique().to_list(): the distinct elements, in an order polars
\* does not specify (maintain_order is not requested): every ordering is possible
unique(xs) ==
  LET S == Range(xs)
      n == Cardinality(S)
  IN {u \in [1..n -> S] : Range(u) = S}

\* ", ".join(names)
RECURSIVE join(_)
join(names) ==
  IF names = <<>> THEN <<>>
  ELSE IF Len(names) = 1 THEN Head(names).v
  ELSE Head(names).v \o <<", ">> \o join(Tail(names))

MsgVariables == <<"variables must be None, a dict, string, or list of strings">>
MsgNoValid == <<"There is no valid column name in variables.">>
MsgNotInNewdata(bad) == <<"Variable(s) not in newdata: ">> \o join(bad)

\* iteration over a list (its elements) or a dict (its keys)
Items(variables) == IF variables.t = "dict" THEN variables.keys ELSE variables.v

\* lines 110-114: the candidates inferred from model.model.exog_names, before
\* unique()
Inferred(m, newdata) ==
  LET stripped == [i \in DOMAIN m.exog_names |-> StrV(re_sub_brackets(m.exog_names[i]))]
  IN FilterSeq(stripped, {x \in Range(stripped) : InColumns(x, newdata)})

\* Resolve without the final emptiness check: an empty selection is returned
Resolve_no_empty_check(s, variables, newdata) ==
  LET norm == IF variables.t = "str" THEN ListV(<<variables>>) ELSE variables
      accepted == \/ variables.t \in {"str", "dict"}
                  \/ variables.t = "list" /\ \A i \in DOMAIN variables.v : variables.v[i].t = "str"
  IN IF ~accepted THEN [self |-> s, out |-> Raise("ValueError", MsgVariables, <<>>)]
     ELSE
     LET items == Items(norm)
         bad == FilterSeq(items, {x \in Range(items) : ~InColumns(x, newdata)})
         w == IF Len(bad) > 0 THEN <<MsgNotInNewdata(bad)>> ELSE <<>>
     IN [self |-> s, out |-> Return(norm, w)]

\* lines 115-132, on the value `variables` holds after the None branch
Resolve(s, variables, newdata) ==
  LET norm == IF variables.t = "str" THEN ListV(<<variables>>) ELSE variables
      accepted == \/ variables.t \in {"str", "dict"}
                  \/ variables.t = "list" /\ \A i \in DOMAIN variables.v : variables.v[i].t = "str"
  IN IF ~accepted THEN [self |-> s, out |-> Raise("ValueError", MsgVariables, <<>>)]
     ELSE
     LET items == Items(norm)
         good == FilterSeq(items, {x \in Range(items) : InColumns(x, newdata)})
         bad == FilterSeq(items, {x \in Range(items) : ~InColumns(x, newdata)})
         w == IF Len(bad) > 0 THEN <<MsgNotInNewdata(bad)>> ELSE <<>>
     IN IF Len(good) = 0
        THEN [self |-> s, out |-> Raise("ValueError", MsgNoValid, w)]
        ELSE [self |-> s, out |-> Return(norm, w)]

\* ModelStatsmodels.get_variables_names: the set of results the call can give
\* (one per ordering unique() may produce when `variables` is None)
get_variables_names(s, m, variables, newdata) ==
  IF variables.t = "NoneType"
  THEN {Resolve(s, ListV(u), newdata) : u \in unique(Inferred(m, newdata))}
  ELSE {Resolve(s, variables, newdata)}

(* ------------------------------ prediction ----------------------------- *)

Digit(d) == <<"0", "1", "2", "3", "4", "5", "6", "7", "8", "9">>[d + 1]

\* str(i) of a non-negative integer: its decimal digits
RECURSIVE str(_)
str(i) == IF i < 10 THEN <<Digit(i)>> ELSE str(i \div 10) \o <<Digit(i % 10)>>

\* a polars table: column names, rows (records keyed by column name) and the
\* dtype of its rowid column
Table(cols, rows, dt) ==
  [t |-> "pl.DataFrame", columns |-> cols, rows |-> rows, rowid_dtype |-> dt]

\* newdata.shape[0]
shape0(newdata) == IF newdata.t = "ndarray" THEN newdata.shape[1] ELSE newdata.height

\* pl.DataFrame(p) of a rank-2 array: one column per array column, named
\* column_0, column_1, ...
ColumnName(j) == <<"column_">> \o str(j)

\* colnames labelling the categories from 1
colnames_from_one(k) ==
  [c \in {ColumnName(i) : i \in 0..(k - 1)} |->
     str((CHOOSE i \in 0..(k - 1) : ColumnName(i) = c) + 1)]

\* {f"column_{i}": str(i) for i in range(k)}
colnames(k) ==
  [c \in {ColumnName(i) : i \in 0..(k - 1)} |->
     str(CHOOSE i \in 0..(k - 1) : ColumnName(i) = c)]

\* DataFrame.rename(mapping) on a sequence of column names
rename(cols, mapping) ==
  [i \in DOMAIN cols |-> IF cols[i] \in DOMAIN mapping THEN mapping[cols[i]] ELSE cols[i]]

\* DataFrame.melt(id_vars="rowid", variable_name="group", value_name="estimate")
\* of a wide table with n rows: the value columns one after the other, each
\* with all its rows
melt(cols, rowid, data) ==
  LET n == Len(rowid)
      k == Len(cols)
  IN [r \in 1..(n * k) |->
        LET j == ((r - 1) \div n) + 1
            i == ((r - 1) % n) + 1
        IN [rowid |-> rowid[i], group |-> StrV(cols[j]), estimate |-> data[i][j]]]

\* ModelStatsmodels.get_predict, given the array p that
\* self.model.model.predict(params, exog) returned
get_predict(s, m, newdata, p) ==
  LET rank == Len(p.shape)
      out ==
        IF rank = 1
        THEN \* pl.DataFrame({"rowid": range(newdata.shape[0]), "estimate": p})
             IF shape0(newdata) # p.shape[1]
             THEN Raise("ShapeError", <<"columns of different lengths">>, <<>>)
             ELSE Return(Table(<<"rowid", "estimate">>,
                               [i \in 1..shape0(newdata) |->
                                  [rowid |-> i - 1, estimate |-> p.data[i]]],
                               "Int32"), <<>>)
        ELSE IF rank = 2
        THEN LET cols == rename([j \in 1..p.shape[2] |-> ColumnName(j - 1)],
                                colnames(p.shape[2]))
                 rowid == [i \in 1..p.shape[1] |-> i - 1]
             IN Return(Table(<<"rowid", "group", "estimate">>,
                             melt(cols, rowid, p.data), "Int32"), <<>>)
        ELSE Raise("ValueError",
                   <<"The predict() method must return an array with 1 or 2 dimensions.">>,
                   <<>>)
  IN [self |-> s, out |-> out]

(* ------------------------------- inputs -------------------------------- *)

Dims == 1..MaxCoef

\* shapes of the backend's params: a vector, or a matrix (a multinomial model)
ParamShapes == {<<n>> : n \in Dims} \cup {<<n, k>> : n \in Dims, k \in Dims}

\* shapes of what a covariance accessor of the backend hands out
CovShapes == {<<>>} \cup {<<a>> : a \in Dims} \cup {<<a, b>> : a \in Dims, b \in Dims}

DefaultColumns == <<<<"x1">>, <<"x2">>, <<"y">>>>
DefaultFrame == PandasFrame(DefaultColumns, MaxRows)
Frames == {DefaultFrame, PolarsFrame(DefaultColumns, MaxRows)}
DefaultFormula == StrV(<<"y ~ x1 + x2">>)
DefaultEndog == StrV(<<"y">>)
DefaultExog == <<<<"Intercept">>, <<"x1">>, <<"x2">>>>

\* the attributes cov_* of the backend: cov_params (a bound method) always,
\* cov_HC3 (an array) on some models
AttrTables ==
  {(CovLabel(<<"params">>) :> MethodV)} \cup
  {(CovLabel(<<"params">>) :> MethodV) @@ (CovLabel(<<"HC3">>) :> ArrayLike(sh)) :
     sh \in CovShapes}
DefaultAttrs ==
  (CovLabel(<<"params">>) :> MethodV) @@ (CovLabel(<<"HC3">>) :> ArrayLike(<<MaxCoef, MaxCoef>>))

\* predictor terms as the backend names them
Terms ==
  {<<"Intercept">>, <<"x1">>, <<"x2">>, <<"x1", "[", "T.a", "]">>}

Models(P, C, A, F, E, Fo, X) ==
  [params : P, cov_params : C, attrs : A, frame : F, endog_names : E, formula : Fo,
   exog_names : X]

\* construction and all three operations: the backend's types vary
ModelsAll ==
  Models({ArrayLike(<<MaxCoef>>), ArrayLike(<<MaxCoef, MaxCoef>>)},
         {ArrayLike(<<MaxCoef, MaxCoef>>)},
         {DefaultAttrs}, {DefaultFrame},
         {DefaultEndog, ListV(<<StrV(<<"y1">>), StrV(<<"y2">>)>>)},
         {DefaultFormula, NoneV}, {DefaultExog})

\* covariance: the coefficient and covariance shapes and the accessors vary
ModelsVcov ==
  Models({ArrayLike(sh) : sh \in ParamShapes}, {ArrayLike(sh) : sh \in CovShapes},
         AttrTables, {DefaultFrame}, {DefaultEndog}, {DefaultFormula}, {DefaultExog})

\* variable names: the predictor term list varies
ModelsVars ==
  Models({ArrayLike(<<MaxCoef>>)}, {ArrayLike(<<MaxCoef, MaxCoef>>)}, {DefaultAttrs},
         {DefaultFrame}, {DefaultEndog}, {DefaultFormula}, SeqsUpTo(Terms, MaxTerms))

\* prediction: one backend, its prediction output varies per call
ModelsPredict ==
  Models({ArrayLike(<<MaxCoef>>)}, {ArrayLike(<<MaxCoef, MaxCoef>>)}, {DefaultAttrs},
         Frames, {DefaultEndog}, {DefaultFormula}, {DefaultExog})

\* covariance selectors: booleans, estimator names, another type
Selectors ==
  {BoolV(TRUE), BoolV(FALSE), StrV(<<"HC3">>), StrV(<<"params">>), IntV(1)}

Names == {<<"x1">>, <<"x2">>, <<"zz">>}

IsInjective(f) == \A i, j \in DOMAIN f : f[i] = f[j] => i = j

\* `variables` arguments: None, a string, a dict (distinct string keys), a list
\* of strings and non-strings, another type
Requests ==
  {NoneV, IntV(1)} \cup {StrV(n) : n \in Names}
  \cup {DictV(ks) : ks \in {f \in SeqsUpTo({StrV(n) : n \in Names}, MaxReq) : IsInjective(f)}}
  \cup {ListV(xs) : xs \in SeqsUpTo({StrV(n) : n \in Names} \cup {IntV(1)}, MaxReq)}

\* input tables of get_variables_names: all columns, x1 missing, only y
VarTables ==
  {PolarsFrame(DefaultColumns, 1), PolarsFrame(<<<<"x2">>, <<"y">>>>, 1),
   PolarsFrame(<<<<"y">>>>, 1)}

\* input tables of get_predict: a polars frame or a raw numeric matrix
PredictTables ==
  {PolarsFrame(DefaultColumns, h) : h \in 0..MaxRows}
  \cup {NdArray(<<h, MaxCoef>>) : h \in 0..MaxRows}

\* the raw value the backend predicts for row i, category j: distinct per cell
RawValue(i, j) == (i - 1) * MaxGroups + j

\* arrays the backend's predict may return: rank 0, 1, 2 and 3
PredictOutputs ==
  {[t |-> "ndarray", shape |-> <<>>, data |-> <<>>],
   [t |-> "ndarray", shape |-> <<1, 1, 1>>, data |-> <<>>]}
  \cup {[t |-> "ndarray", shape |-> <<n>>, data |-> [i \in 1..n |-> RawValue(i, 1)]] :
          n \in 0..MaxRows}
  \cup {[t |-> "ndarray", shape |-> <<n, k>>,
         data |-> [i \in 1..n |-> [j \in 1..k |-> RawValue(i, j)]]] :
          n \in 0..MaxRows, k \in 1..MaxGroups}

(* ------------------------------- actions ------------------------------- *)

NoCall == [op |-> "none", arg |-> Unset, newdata |-> Unset, raw |-> Unset, out |-> Unset]

NotSeen == [arg |-> Unset, out |-> Unset, again |-> FALSE]

InitWith(M) ==
  /\ model \in M
  /\ self = Blank
  /\ last = NoCall
  /\ seen = NotSeen

\* ModelStatsmodels(model): ModelAbstract.__init__
Construct ==
  /\ self.status = "new"
  /\ self' = init(model)
  /\ UNCHANGED <<model, last, seen>>

\* adapter.get_vcov(vcov).  `seen` is an observer: it keeps one earlier call
\* (any one: the call to keep is chosen freely) and its outcome, so that every
\* pair of calls is compared in some behaviour; `again` tells that a later call
\* used the kept selector
GetVcov ==
  /\ self.status = "constructed"
  /\ \E vcov \in Selectors :
       LET r == get_vcov(self, model, vcov) IN
       /\ self' = r.self
       /\ last' = [op |-> "get_vcov", arg |-> vcov, newdata |-> Unset, raw |-> Unset,
                   out |-> r.out]
       /\ seen' \in IF seen = NotSeen
                    THEN {seen, [arg |-> vcov, out |-> r.out, again |-> FALSE]}
                    ELSE {[seen EXCEPT !.again = @ \/ seen.arg = vcov]}
  /\ UNCHANGED model

\* adapter.get_variables_names(variables, newdata)
GetVariablesNames ==
  /\ self.status = "constructed"
  /\ \E variables \in Requests, newdata \in VarTables :
       \E r \in get_variables_names(self, model, variables, newdata) :
         /\ self' = r.self
         /\ last' = [op |-> "get_variables_names", arg |-> variables, newdata |-> newdata,
                     raw |-> Unset, out |-> r.out]
  /\ UNCHANGED <<model, seen>>

\* adapter.get_predict(params, newdata), the backend returning p
GetPredict ==
  /\ self.status = "constructed"
  /\ \E newdata \in PredictTables, p \in PredictOutputs :
       LET r == get_predict(self, model, newdata, p) IN
       /\ self' = r.self
       /\ last' = [op |-> "get_predict", arg |-> Unset, newdata |-> newdata, raw |-> p,
                   out |-> r.out]
  /\ UNCHANGED <<model, seen>>

Init == InitWith(ModelsAll)
Next == Construct \/ GetVcov \/ GetVariablesNames \/ GetPredict
Spec == Init /\ [][Next]_vars

InitVcov == InitWith(ModelsVcov)
NextVcov == Construct \/ GetVcov
SpecVcov == InitVcov /\ [][NextVcov]_vars

InitVars == InitWith(ModelsVars)
NextVars == Construct \/ GetVariablesNames
SpecVars == InitVars /\ [][NextVars]_vars

InitPredict == InitWith(ModelsPredict)
NextPredict == Construct \/ GetPredict
SpecPredict == InitPredict /\ [][NextPredict]_vars

(* ------------------------- claims: construction ------------------------ *)

IsVector(v) == v.t = "ndarray" /\ Len(v.shape) = 1
IsTable(v) == v.t = "pl.DataFrame"
IsString(v) == v.t = "str"

\* what each getter hands to its validation, in the order of the checks
GetterResults ==
  <<get_coef(model), get_modeldata(model), get_response_name(model), get_formula(model)>>
GetterValid(i) ==
  CASE i = 1 -> IsVector(GetterResults[1])
    [] i = 2 -> IsTable(GetterResults[2])
    [] i = 3 -> IsString(GetterResults[3])
    [] i = 4 -> IsString(GetterResults[4])
CallsUpTo(i) ==
  [get_coef |-> IF i >= 1 THEN 1 ELSE 0, get_modeldata |-> IF i >= 2 THEN 1 ELSE 0,
   get_response_name |-> IF i >= 3 THEN 1 ELSE 0, get_formula |-> IF i >= 4 THEN 1 ELSE 0]

\* C5: an adapter is constructed only if all four getter results are valid
\* (coefficients a one-dimensional array, model data a table, response name
\* and formula strings); otherwise construction raises at the first invalid
\* one, in the order coefficients, model data, response name, formula, and
\* calls no later getter.
C5_ConstructedOnlyIfValid ==
  /\ self.status = "constructed" => \A i \in 1..4 : GetterValid(i)
  /\ self.status # "new" /\ (\E i \in 1..4 : ~GetterValid(i)) =>
       LET first == SetMin({i \in 1..4 : ~GetterValid(i)}) IN
       /\ self.status = "failed"
       /\ self.exc = "ValueError"
       /\ self.calls = CallsUpTo(first)

(* -------------------------- claims: covariance ------------------------- *)

VcovCalled == last.op = "get_vcov"

\* C2: covariance(false) raises nothing and returns a null result.
C2_FalseReturnsNone ==
  VcovCalled /\ last.arg = BoolV(FALSE) =>
    last.out.kind = "return" /\ last.out.value = NoneV

\* the array the backend exposes for a selector, where it exposes one
HasBackendMatrix(vcov) ==
  \/ vcov = BoolV(TRUE)
  \/ vcov.t = "str" /\ CovLabel(vcov.v) \in DOMAIN model.attrs
                    /\ model.attrs[CovLabel(vcov.v)].t = "arraylike"
BackendMatrix(vcov) ==
  IF vcov = BoolV(TRUE) THEN model.cov_params ELSE model.attrs[CovLabel(vcov.v)]

CoefCount == self.coef.shape[1]

\* C3: a matrix that covariance(selector) returns is square with both
\* dimensions equal to len(coefficients()); a backend matrix of that shape is
\* returned, one of any other shape makes the call raise the shape error.
C3_ReturnedMatrixIsSquare ==
  VcovCalled =>
    /\ last.out.kind = "return" =>
         /\ last.out.value.t = "ndarray"
         /\ last.out.value.shape = <<CoefCount, CoefCount>>
    /\ HasBackendMatrix(last.arg) =>
         IF BackendMatrix(last.arg).shape = <<CoefCount, CoefCount>>
         THEN last.out.kind = "return"
         ELSE /\ last.out.kind = "raise"
              /\ last.out.exc = "ValueError"
              /\ last.out.msg = MsgVcovShape

\* C3's case: covariance(true) returned a matrix
C3_Witness ==
  VcovCalled /\ last.arg = BoolV(TRUE) /\ last.out.kind = "return"

\* s occurs in msg as a run of consecutive tokens
Contains(msg, s) ==
  \E i \in 1..(Len(msg) - Len(s) + 1) : SubSeq(msg, i, i + Len(s) - 1) = s

NoAccessor(vcov) == vcov.t = "str" /\ CovLabel(vcov.v) \notin DOMAIN model.attrs

\* C8: a string selector with no accessor cov_<s> on the model makes
\* covariance(s) raise the error that names the missing accessor; no matrix is
\* returned and the shape error is never raised in its place.
C8_UnknownEstimator ==
  VcovCalled /\ NoAccessor(last.arg) =>
    /\ last.out.kind = "raise"
    /\ last.out.exc = "ValueError"
    /\ last.out.msg = MsgNoAttr(CovLabel(last.arg.v))
    /\ Contains(last.out.msg, last.arg.v)
    /\ last.out.msg # MsgVcovShape

\* C8's case: covariance("HC3") was called on a model without cov_HC3 whose
\* default covariance has the wrong shape as well
C8_Witness ==
  /\ VcovCalled /\ last.arg = StrV(<<"HC3">>) /\ NoAccessor(last.arg)
  /\ model.cov_params.shape # <<CoefCount, CoefCount>>
  /\ last.out.kind = "raise"

(* ------------------------ claims: variable names ----------------------- *)

NamesCalled == last.op = "get_variables_names"

\* an accepted explicit request: a string, a mapping, a list of strings
Accepted(v) ==
  \/ v.t \in {"str", "dict"}
  \/ v.t = "list" /\ \A i \in DOMAIN v.v : v.v[i].t = "str"

\* the names an explicit request lists, in its order
Requested(v) == IF v.t = "str" THEN <<v>> ELSE IF v.t = "dict" THEN v.keys ELSE v.v

IsColumn(x, newdata) == x.v \in Range(newdata.columns)

PresentOf(v, newdata) ==
  FilterSeq(Requested(v), {x \in Range(Requested(v)) : IsColumn(x, newdata)})
AbsentOf(v, newdata) ==
  {x \in Range(Requested(v)) : ~IsColumn(x, newdata)}

\* C1: a request naming at least one column and at least one non-column
\* returns the list of the names that are columns, in request order, and warns
\* with a message listing the absent names.
C1_OnlyPresentReturned ==
  NamesCalled /\ Accepted(last.arg)
    /\ PresentOf(last.arg, last.newdata) # <<>>
    /\ AbsentOf(last.arg, last.newdata) # {} =>
      /\ last.out.kind = "return"
      /\ Len(last.out.warnings) = 1
      /\ \A x \in AbsentOf(last.arg, last.newdata) : Contains(last.out.warnings[1], x.v)
      /\ last.out.value = ListV(PresentOf(last.arg, last.newdata))

\* the elements of xs, each at its first appearance only
RECURSIVE FirstSeen(_)
FirstSeen(xs) ==
  IF xs = <<>> THEN <<>>
  ELSE LET front == SubSeq(xs, 1, Len(xs) - 1)
           x == xs[Len(xs)]
       IN IF x \in Range(front) THEN FirstSeen(front) ELSE FirstSeen(front) \o <<x>>

\* the model's predictor terms with the bracketed suffix removed
StrippedTerms ==
  [i \in DOMAIN model.exog_names |-> StrV(re_sub_brackets(model.exog_names[i]))]

\* the stripped terms that are columns, deduplicated, by first appearance
ExpectedInferred(newdata) ==
  LET st == StrippedTerms
  IN FirstSeen(FilterSeq(st, {x \in Range(st) : IsColumn(x, newdata)}))

\* C4: with no request, the result is the model's predictor terms, stripped of
\* the bracketed suffix, deduplicated, restricted to the table's columns, in
\* order of first appearance.
C4_InferredInFirstSeenOrder ==
  NamesCalled /\ last.arg = NoneV /\ ExpectedInferred(last.newdata) # <<>> =>
    /\ last.out.kind = "return"
    /\ last.out.value = ListV(ExpectedInferred(last.newdata))

\* no name the call resolves is a column of the input table
NoneIsColumn(v, newdata) ==
  IF v = NoneV
  THEN \A x \in Range(StrippedTerms) : ~IsColumn(x, newdata)
  ELSE \A x \in Range(Requested(v)) : ~IsColumn(x, newdata)

\* C9: when no resolved name is a column of the input table, the call raises
\* the "no valid column name" error and returns no list.
C9_EmptySelectionRaises ==
  NamesCalled /\ (last.arg = NoneV \/ Accepted(last.arg))
    /\ NoneIsColumn(last.arg, last.newdata) =>
      /\ last.out.kind = "raise"
      /\ last.out.exc = "ValueError"
      /\ last.out.msg = MsgNoValid
      /\ last.out.value = Unset

\* C9's case: a non-empty list of names, none of them a column, was requested
C9_Witness ==
  /\ NamesCalled /\ last.arg.t = "list" /\ Accepted(last.arg) /\ Len(last.arg.v) >= 1
  /\ NoneIsColumn(last.arg, last.newdata)
  /\ last.out.kind = "raise"

(* -------------------------- claims: prediction ------------------------- *)

PredictCalled == last.op = "get_predict"

Decimal == <<"0", "1", "2", "3", "4", "5", "6", "7", "8", "9">>
\* the stringified column index j, for j < 10
GroupLabel(j) == StrV(<<Decimal[j + 1]>>)

RowsOf(tbl) == {tbl.rows[r] : r \in DOMAIN tbl.rows}

\* the long form of an n x k raw matrix: n*k rows, one per (rowid, group) pair,
\* each with the raw value of its cell
LongForm(n, k) ==
  /\ last.out.kind = "return"
  /\ LET rows == last.out.value.rows IN
     /\ Len(rows) = n * k
     /\ {x.group : x \in RowsOf(last.out.value)} = {GroupLabel(j) : j \in 0..(k - 1)}
     /\ {x.rowid : x \in RowsOf(last.out.value)} = 0..(n - 1)
     /\ \A i \in 0..(n - 1), j \in 0..(k - 1) :
          LET at == {r \in DOMAIN rows : rows[r].rowid = i /\ rows[r].group = GroupLabel(j)}
          IN /\ Cardinality(at) = 1
             /\ \A r \in at : rows[r].estimate = last.raw.data[i + 1][j + 1]

Rank2 == PredictCalled /\ Len(last.raw.shape) = 2

\* C6 as stated: every rank-2 output of shape n x k gives the long form with
\* exactly k group values and the rowids 0..n-1.
C6_LongFormAlways ==
  Rank2 => LongForm(last.raw.shape[1], last.raw.shape[2])

\* C6: a rank-2 output of shape n x k with n >= 1 (and k >= 1) gives the long
\* form: n*k rows, the groups "0".."k-1", the rowids 0..n-1, each pair once
\* with the raw value of its cell; with n = 0 the table has no rows.
C6_LongFormNonEmpty ==
  Rank2 =>
    IF last.raw.shape[1] >= 1
    THEN LongForm(last.raw.shape[1], last.raw.shape[2])
    ELSE last.out.kind = "return" /\ last.out.value.rows = <<>>

\* C6's case: a prediction of at least 2 rows and 2 categories was reshaped
C6_Witness ==
  Rank2 /\ last.raw.shape[1] >= 2 /\ last.raw.shape[2] >= 2 /\ last.out.kind = "return"

\* C7: a rank-1 output of length n gives n rows, rowid 0..n-1 in order, the
\* i-th estimate the i-th raw value, whatever the row count of the input table.
C7_Rank1Rows ==
  PredictCalled /\ Len(last.raw.shape) = 1 =>
    /\ last.out.kind = "return"
    /\ last.out.value.rows =
         [i \in 1..last.raw.shape[1] |-> [rowid |-> i - 1, estimate |-> last.raw.data[i]]]

(* ----------------------------- claims: frame --------------------------- *)

Once == [get_coef |-> 1, get_modeldata |-> 1, get_response_name |-> 1, get_formula |-> 1]

\* C10: once the adapter is constructed each getter has been invoked exactly
\* once, no later call changes the adapter's fields or the model, and a
\* covariance call repeating an earlier call's selector repeats its outcome.
C10_FrozenAfterConstruction ==
  /\ [](self.status = "constructed" => self.calls = Once)
  /\ [][self.status = "constructed" => self' = self /\ model' = model]_vars
  /\ [](VcovCalled /\ seen # NotSeen /\ last.arg = seen.arg => last.out = seen.out)

\* C10's case: after other calls, a covariance call repeated an earlier selector
C10_Witness ==
  self.status = "constructed" /\ VcovCalled /\ seen.again /\ last.arg = seen.arg

====
